---- MODULE Spec2Model ----
(***************************************************************************)
(* Real-time conversation subsystem of the concierge backend:              *)
(*   - ConnectionManager (per-conversation rooms of WebSocket connections) *)
(*   - websocket_chat   (one handler task per WebSocket connection)        *)
(*   - SendMessageUseCase (HTTP path that persists a message)              *)
(* and the request / booking workflow behind the admin routes:             *)
(*   - Request, Booking (domain entities and their transitions)            *)
(*   - SubmitRequestUseCase, CreateBookingUseCase,                         *)
(*     UpdateBookingStatusUseCase (over the tables of the database)        *)
(* Every `await` of the handler is a point where other tasks may run, so   *)
(* each awaited call is one step of the session that makes it.             *)
(***************************************************************************)
EXTENDS Integers, Sequences, FiniteSets, TLC

\* ------------------------------------------------------------------ bounds
NumSessions == 2
MaxInbound == 2
MaxHttp == 1
NumSockets == 3
MaxClock == 1
TicksPerSecond == 2
MaxRows == 3
MaxBookings == 2
MaxNotifications == 2
NumCalls == 2

Sessions == 1..NumSessions
\* WebSocket objects handed to the ConnectionManager by arbitrary callers
Sockets == 1..NumSockets
\* threads of the server's pool that run UpdateBookingStatusUseCase.execute
Calls == 1..NumCalls

\* ------------------------------------------------------- program constants
CLOSE_INVALID_TOKEN == 4001
CLOSE_ACCESS_DENIED == 4003
CLOSE_NOT_FOUND == 4004

\* ------------------------------------------------------------- input data
\* conversations table: conversation id -> owning user_id
Conversations == (1 :> 1) @@ (2 :> 2)
\* conversation ids a client may put in the path (3 names no conversation)
PathIds == {1, 2, 3}

\* JWTs a client may present; user_id 0 stands for a token without the claim
Tokens ==
    { [valid |-> FALSE, user_id |-> 1, is_admin |-> FALSE],
      [valid |-> TRUE,  user_id |-> 0, is_admin |-> FALSE],
      [valid |-> TRUE,  user_id |-> 1, is_admin |-> FALSE],
      [valid |-> TRUE,  user_id |-> 3, is_admin |-> TRUE] }

NoToken == [valid |-> FALSE, user_id |-> 0, is_admin |-> FALSE]

\* inbound "content" values, as character sequences
Contents == { <<" ">>, <<"a", " ">> }
\* an inbound frame that is valid JSON but no object with a string content
BadFrame == <<"[", "]">>
\* no frame in hand
NoFrame == <<"None">>
\* how a notification call ends: the row is committed, the call raises
\* before the session is used, or the flush of the row fails
NotifyOutcomes == {"ok", "raise", "raise_flush"}
\* locals of a call that is not running
NoCall == [pc |-> "idle", booking_id |-> 0, target |-> "", status |-> "",
           old_status |-> ""]
\* the outcome of an HTTP call: the operation, "ok" or the exception that
\* left it, the id and status of the row returned, the id the call named
\* and the status it found there
Response(op, result, id, status, ref, old_status) ==
    [op |-> op, result |-> result, id |-> id, status |-> status,
     ref |-> ref, old_status |-> old_status]
\* no Message entity in hand
NoMessage == [message_id |-> 0, conversation_id |-> 0, sender_id |-> 0,
              sender_type |-> "", content |-> <<>>, created_at |-> 0]
\* no HTTP call has returned yet
NoResponse == Response("none", "none", 0, "", 0, "")

\* ------------------------------------------------------------------ state
VARIABLES
    active_connections, \* ConnectionManager.active_connections: dict id -> list
    pc,                 \* where each websocket_chat task stands
    token,              \* the handler's token argument
    conversation_id,    \* the handler's conversation_id argument
    reject,             \* close code of the rejection under way (0: none)
    ws_state,           \* the WebSocket's application state
    peer,               \* the transport: "open" or "gone"
    sent,               \* frames delivered to the client, in order
    close_code,         \* code of the close frame sent (0: none)
    db,                 \* the handler's database session
    raised,             \* an exception left the handler
    n_in,               \* inbound frames receive_json has returned
    bc,                 \* locals of the session's manager.broadcast call
    messages,           \* messages table, in insertion order
    n_http,             \* messages persisted by HTTP send-message calls
    joined,             \* history: connections connected and not disconnected
    joined_at,          \* history: size of the messages table at connect
    data,               \* the frame receive_json returned to the loop body
    notify,             \* how the loop body's notification call ended
    notifications,      \* notifications table, in insertion order
    now,                \* the clock datetime.utcnow() reads
    requests,           \* requests table: id -> row
    conversations,      \* conversations table: id -> row
    bookings,           \* bookings table: id -> row
    calls,              \* UpdateBookingStatusUseCase.execute calls under way
    response,           \* outcome of the last HTTP call that returned
    request,            \* a Request entity in memory
    booking,            \* a Booking entity in memory
    invoked,            \* the last entity method called and what it raised
    message             \* the Message entity each send-message call holds

storeVars == << requests, conversations, bookings, calls, response >>
entityVars == << request, booking, invoked, message >>
\* what only the chat sessions and the connection manager change
chatVars == << active_connections, pc, token, conversation_id, reject,
               ws_state, peer, sent, close_code, db, raised, n_in, bc, n_http,
               joined, joined_at, data, notify >>

vars == << active_connections, pc, token, conversation_id, reject, ws_state,
           peer, sent, close_code, db, raised, n_in, bc, messages, n_http,
           joined, joined_at, data, notify, notifications, now, storeVars,
           entityVars >>

\* ---------------------------------------------------------------- helpers
RECURSIVE SumOver(_, _)
SumOver(f, S) ==
    IF S = {} THEN 0
    ELSE LET x == CHOOSE y \in S : TRUE IN f[x] + SumOver(f, S \ {x})

Elems(l) == { l[i] : i \in 1..Len(l) }

\* str.strip()
RECURSIVE LStrip(_)
LStrip(s) == IF s # <<>> /\ Head(s) = " " THEN LStrip(Tail(s)) ELSE s

RECURSIVE RStrip(_)
RStrip(s) ==
    IF s # <<>> /\ s[Len(s)] = " " THEN RStrip(SubSeq(s, 1, Len(s) - 1)) ELSE s

\* a trim that returns its argument
Strip_Nothing(s) == s

Strip(s) == RStrip(LStrip(s))

\* list.remove(x): drops the first occurrence
ListRemove(l, x) ==
    LET i == CHOOSE k \in 1..Len(l) : l[k] = x /\ \A j \in 1..(k - 1) : l[j] # x
    IN SubSeq(l, 1, i - 1) \o SubSeq(l, i + 1, Len(l))

\* the room of a conversation as the registry shows it
Room(ac, cid) == IF cid \in DOMAIN ac THEN ac[cid] ELSE <<>>

\* get_token_claims(token)
NoClaims == [present |-> FALSE, user_id |-> 0, is_admin |-> FALSE]
get_token_claims(t) ==
    IF t.valid
    THEN [present |-> TRUE, user_id |-> t.user_id, is_admin |-> t.is_admin]
    ELSE NoClaims

\* a handler that sends every message as "user"
SenderType_AlwaysUser(is_admin) == "user"

SenderType(is_admin) == IF is_admin THEN "admin" ELSE "user"

\* ------------------------------------------------------ ConnectionManager
\* connect(), after the accept: create the room if needed, append
ConnectOp(ac, ws, cid) ==
    LET base == IF cid \in DOMAIN ac THEN ac ELSE ac @@ (cid :> <<>>)
    IN [base EXCEPT ![cid] = Append(@, ws)]

\* a disconnect that leaves the emptied room in the registry
DisconnectOp_NoCleanup(ac, ws, cid) ==
    IF cid \notin DOMAIN ac THEN ac
    ELSE IF ws \in Elems(ac[cid])
    THEN [ac EXCEPT ![cid] = ListRemove(ac[cid], ws)]
    ELSE ac

\* a disconnect that drops the last connection of the room when the one it
\* was given is not there
DisconnectOp_PopLast(ac, ws, cid) ==
    IF cid \notin DOMAIN ac THEN ac
    ELSE LET l == IF ws \in Elems(ac[cid]) THEN ListRemove(ac[cid], ws)
                  ELSE SubSeq(ac[cid], 1, Len(ac[cid]) - 1)
         IN IF l = <<>>
            THEN [c \in (DOMAIN ac) \ {cid} |-> ac[c]]
            ELSE [ac EXCEPT ![cid] = l]

\* a disconnect that deletes the room of the connection it removes
DisconnectOp_ClearRoom(ac, ws, cid) ==
    IF cid \notin DOMAIN ac THEN ac
    ELSE IF ws \in Elems(ac[cid])
    THEN [c \in (DOMAIN ac) \ {cid} |-> ac[c]]
    ELSE ac

\* disconnect()
DisconnectOp(ac, ws, cid) ==
    IF cid \notin DOMAIN ac THEN ac
    ELSE LET l == IF ws \in Elems(ac[cid]) THEN ListRemove(ac[cid], ws)
                  ELSE ac[cid]
         IN IF l = <<>>
            THEN [c \in (DOMAIN ac) \ {cid} |-> ac[c]]
            ELSE [ac EXCEPT ![cid] = l]

\* a clean-up that never removes the dead connections
PruneOp_Skip(ac, dead, cid) == ac

\* broadcast(): "for conn in disconnected: self.disconnect(conn, id)"
RECURSIVE PruneOp(_, _, _)
PruneOp(ac, dead, cid) ==
    IF dead = <<>> THEN ac
    ELSE PruneOp(DisconnectOp(ac, Head(dead), cid), Tail(dead), cid)

\* a broadcast whose loop stops at the first failed send
SendOutcome_AbortOnFailure(frame, conn, ok) ==
    IF ok THEN [frame EXCEPT !.idx = @ + 1]
    ELSE [frame EXCEPT !.idx = NumSessions + 1,
                       !.disconnected = Append(@, conn)]

\* a broadcast that takes every connection it sent to for dead
SendOutcome_AllDead(frame, conn, ok) ==
    [frame EXCEPT !.idx = @ + 1, !.disconnected = Append(@, conn)]

\* broadcast(): what one send_json outcome does to the loop
SendOutcome(frame, conn, ok) ==
    IF ok THEN [frame EXCEPT !.idx = @ + 1]
    ELSE [frame EXCEPT !.idx = @ + 1, !.disconnected = Append(@, conn)]

\* locals of a broadcast call that is not running
NoBroadcast ==
    [phase |-> "none", cid |-> 0, payload |-> <<>>, idx |-> 1,
     disconnected |-> <<>>, detached |-> FALSE, members0 |-> <<>>,
     intact |-> FALSE]

\* A broadcast in flight iterates the list object that was the room when it
\* started.  Deleting the room entry leaves that object empty and
\* unreachable from the registry: the iteration then sees an empty list.
Detach(frames, ac, ac2) ==
    [s \in DOMAIN frames |->
        IF frames[s].phase = "sending" /\ frames[s].cid \in DOMAIN ac
           /\ frames[s].cid \notin DOMAIN ac2
        THEN [frames[s] EXCEPT !.detached = TRUE]
        ELSE frames[s]]

\* ------------------------------------------------------------------ frames
ErrorFrame(text) == [type |-> "error", message |-> text]
ConnectedFrame(cid, st) ==
    [type |-> "connected", conversation_id |-> cid, user_type |-> st]
\* datetime.isoformat(): the fraction of the second is left out when zero
isoformat(dt) ==
    IF dt % TicksPerSecond = 0 THEN << dt \div TicksPerSecond >>
    ELSE << dt \div TicksPerSecond, dt % TicksPerSecond >>

\* the frame of a message built from the entity Message.create returned,
\* which has no message_id yet
MessageFrame_Unsaved(m) ==
    [type |-> "message", id |-> 0,
     conversation_id |-> m.conversation_id, sender_id |-> m.sender_id,
     sender_type |-> m.sender_type, content |-> m.content,
     created_at |-> isoformat(m.created_at)]

\* the frame the loop broadcasts for saved_message
MessageFrame(m) ==
    [type |-> "message", id |-> m.message_id,
     conversation_id |-> m.conversation_id, sender_id |-> m.sender_id,
     sender_type |-> m.sender_type, content |-> m.content,
     created_at |-> isoformat(m.created_at)]

RejectText(code) ==
    IF code = CLOSE_INVALID_TOKEN THEN "Invalid or expired token"
    ELSE IF code = CLOSE_NOT_FOUND THEN "Conversation not found"
    ELSE "Access denied to this conversation"

\* ConversationRepository.add_message: the row the insert produces
NewMessage(cid, uid, st, content) ==
    [message_id |-> Len(messages) + 1, conversation_id |-> cid,
     sender_id |-> uid, sender_type |-> st, content |-> content,
     created_at |-> now]

\* NotificationService.create_notification: the row the insert produces
NewNotification(uid, type, related_id) ==
    [user_id |-> uid, notification_type |-> type, related_id |-> related_id]

\* the notifications table after a notify call that ended as outcome says
Notified(rows, outcome, row) ==
    IF outcome = "ok" THEN Append(rows, row) ELSE rows

\* a notification call whose exceptions are not caught at the call site
NotifyCaught_OnlySuccess(outcome) == outcome = "ok"

\* try: notify ... except Exception: log -- whatever the call raises is
\* caught at the call site
NotifyCaught(outcome) == outcome \in NotifyOutcomes

\* A flush that failed leaves the SQLAlchemy session inactive: until
\* rollback() every later commit on that session raises.
SessionAfter(outcome) == IF outcome = "raise_flush" THEN "failed" ELSE "open"

\* --------------------------------------------------------------- entities
\* Request.VALID_STATUSES, Booking.VALID_STATUSES
Request_VALID_STATUSES ==
    {"new", "assigned", "in_progress", "fulfilled", "cancelled"}
Booking_VALID_STATUSES == {"upcoming", "completed", "cancelled"}

\* what a method call leaves: the exception it raised and the entity
Raised(exc, entity) == [raised |-> exc, entity |-> entity]
Returned(entity) == [raised |-> "none", entity |-> entity]

\* Request.assign
Request_assign(r, t) ==
    IF r.status # "new" THEN Raised("InvalidRequestError", r)
    ELSE Returned([status |-> "assigned", updated_at |-> t])

\* Request.start_progress
Request_start_progress(r, t) ==
    IF r.status # "assigned" THEN Raised("InvalidRequestError", r)
    ELSE Returned([status |-> "in_progress", updated_at |-> t])

\* Request.fulfill
Request_fulfill(r, t) ==
    IF r.status # "in_progress" THEN Raised("InvalidRequestError", r)
    ELSE Returned([status |-> "fulfilled", updated_at |-> t])

\* a cancel that refuses only requests already cancelled
Request_cancel_AlsoFulfilled(r, t) ==
    IF r.status = "cancelled" THEN Raised("InvalidRequestError", r)
    ELSE Returned([status |-> "cancelled", updated_at |-> t])

\* Request.cancel
Request_cancel(r, t) ==
    IF r.status \in {"fulfilled", "cancelled"}
    THEN Raised("InvalidRequestError", r)
    ELSE Returned([status |-> "cancelled", updated_at |-> t])

\* a complete that takes a booking in any status but completed
Booking_complete_AlsoCancelled(b) ==
    IF b.status = "completed" THEN Raised("InvalidBookingError", b)
    ELSE Returned([status |-> "completed"])

\* Booking.complete
Booking_complete(b) ==
    IF b.status # "upcoming" THEN Raised("InvalidBookingError", b)
    ELSE Returned([status |-> "completed"])

\* a cancel that takes upcoming bookings only
Booking_cancel_OnlyUpcoming(b) ==
    IF b.status # "upcoming" THEN Raised("InvalidBookingError", b)
    ELSE Returned([status |-> "cancelled"])

\* Booking.cancel
Booking_cancel(b) ==
    IF b.status = "completed" THEN Raised("InvalidBookingError", b)
    ELSE Returned([status |-> "cancelled"])

RequestMethods == {"assign", "start_progress", "fulfill", "cancel"}
BookingMethods == {"complete", "cancel_booking"}

\* the call request.<method>() at instant t
CallRequest(method, r, t) ==
    IF method = "assign" THEN Request_assign(r, t)
    ELSE IF method = "start_progress" THEN Request_start_progress(r, t)
    ELSE IF method = "fulfill" THEN Request_fulfill(r, t)
    ELSE Request_cancel(r, t)

\* the call booking.<method>()
CallBooking(method, b) ==
    IF method = "complete" THEN Booking_complete(b) ELSE Booking_cancel(b)

\* ------------------------------------------------------------------- Init
\* no frame in hand, no notification sent, the clock at its origin
InitLoop ==
    /\ data = [s \in Sessions |-> NoFrame]
    /\ notify = [s \in Sessions |-> "none"]
    /\ notifications = <<>>
    /\ now = 0

\* the tables behind the conversations of Conversations: one new request
\* per conversation, no booking yet; no HTTP call under way
InitRows ==
    /\ requests = [r \in DOMAIN Conversations |->
                     [user_id |-> Conversations[r], vendor_id |-> 0,
                      status |-> "new", updated_at |-> 0]]
    /\ conversations = [c \in DOMAIN Conversations |->
                          [request_id |-> c, user_id |-> Conversations[c]]]
    /\ bookings = <<>>
    /\ calls = [c \in Calls |-> NoCall]
    /\ response = NoResponse

\* Request.create(...) and Booking.create(...) at the clock's origin
InitEntities ==
    /\ request = [status |-> "new", updated_at |-> 0]
    /\ booking = [status |-> "upcoming"]
    /\ invoked = [method |-> "create", raised |-> "none",
                  before |-> [status |-> "new", updated_at |-> 0], at |-> 0]
    /\ message = [c \in Calls |-> NoMessage]

\* no connection yet, every handler task still to start, no message
InitSessions ==
    /\ active_connections = << >>
    /\ pc = [s \in Sessions |-> "idle"]
    /\ token = [s \in Sessions |-> NoToken]
    /\ conversation_id = [s \in Sessions |-> 0]
    /\ reject = [s \in Sessions |-> 0]
    /\ ws_state = [s \in Sessions |-> "connecting"]
    /\ peer = [s \in Sessions |-> "open"]
    /\ sent = [s \in Sessions |-> <<>>]
    /\ close_code = [s \in Sessions |-> 0]
    /\ db = [s \in Sessions |-> "none"]
    /\ raised = [s \in Sessions |-> FALSE]
    /\ n_in = [s \in Sessions |-> 0]
    /\ bc = [s \in Sessions |-> NoBroadcast]
    /\ messages = <<>>
    /\ n_http = 0
    /\ joined = [c \in PathIds |-> {}]
    /\ joined_at = [s \in Sessions |-> 0]

Init ==
    /\ InitSessions
    /\ InitLoop
    /\ InitRows
    /\ InitEntities

\* ------------------------------------------------------ websocket_chat
\* an access check that lets every authenticated caller in
Authorized_Anyone(claims, cid) == TRUE

\* "not is_admin and conversation.user_id != user_id" is the denial
Authorized(claims, cid) ==
    claims.is_admin \/ Conversations[cid] = claims.user_id

\* checks that answer a missing conversation with the access-denied code
RejectCode_NotFoundAsDenied(tok, cid) ==
    LET claims == get_token_claims(tok)
    IN IF ~claims.present \/ claims.user_id = 0 THEN CLOSE_INVALID_TOKEN
       ELSE IF cid \notin DOMAIN Conversations THEN CLOSE_ACCESS_DENIED
       ELSE IF ~(claims.is_admin \/ Conversations[cid] = claims.user_id)
       THEN CLOSE_ACCESS_DENIED
       ELSE 0

\* the close code the checks before the join select (0: the caller may join)
RejectCode(tok, cid) ==
    LET claims == get_token_claims(tok)
    IN IF ~claims.present \/ claims.user_id = 0 THEN CLOSE_INVALID_TOKEN
       ELSE IF cid \notin DOMAIN Conversations THEN CLOSE_NOT_FOUND
       ELSE IF ~Authorized(claims, cid) THEN CLOSE_ACCESS_DENIED
       ELSE 0

\* a finally block that closes the database session only
Finally_NoDisconnect(s) ==
    /\ db' = [db EXCEPT ![s] = "closed"]
    /\ UNCHANGED << active_connections, bc, joined >>

\* the finally block: manager.disconnect(websocket, conversation_id); db.close()
Finally(s) ==
    /\ active_connections' =
          DisconnectOp(active_connections, s, conversation_id[s])
    /\ bc' = Detach(bc, active_connections, active_connections')
    /\ db' = [db EXCEPT ![s] = "closed"]
    /\ joined' = [joined EXCEPT ![conversation_id[s]] = @ \ {s}]

\* an exception leaves the handler: through the finally block once the
\* database session was obtained, straight out before that
ExitRaising(s) ==
    /\ pc' = [pc EXCEPT ![s] = "done"]
    /\ raised' = [raised EXCEPT ![s] = TRUE]
    /\ IF db[s] = "open" THEN Finally(s)
       ELSE UNCHANGED << active_connections, bc, db, joined >>

\* A client opens /ws/chat/{cid}?token=tok: the handler runs to its first
\* await.  WebSocket objects are interchangeable, so they are used in order.
Open(s, tok, cid) ==
    /\ pc[s] = "idle"
    /\ \A t \in Sessions : t < s => pc[t] # "idle"
    /\ token' = [token EXCEPT ![s] = tok]
    /\ conversation_id' = [conversation_id EXCEPT ![s] = cid]
    /\ reject' = [reject EXCEPT ![s] = RejectCode(tok, cid)]
    /\ db' = [db EXCEPT ![s] =
                IF RejectCode(tok, cid) = CLOSE_INVALID_TOKEN THEN "none"
                ELSE "open"]
    /\ pc' = [pc EXCEPT ![s] =
                IF RejectCode(tok, cid) = 0 THEN "connect"
                ELSE "reject_accept"]
    /\ UNCHANGED << active_connections, ws_state, peer, sent, close_code,
                    raised, n_in, bc, messages, n_http, joined, joined_at >>
    /\ UNCHANGED << data, notify, notifications, now, storeVars, entityVars >>

\* rejection: await websocket.accept()
RejectAccept(s) ==
    /\ pc[s] = "reject_accept"
    /\ ws_state' = [ws_state EXCEPT ![s] = "connected"]
    /\ pc' = [pc EXCEPT ![s] = "reject_send"]
    /\ UNCHANGED << active_connections, token, conversation_id, reject, peer,
                    sent, close_code, db, raised, n_in, bc, messages, n_http,
                    joined, joined_at >>
    /\ UNCHANGED << data, notify, notifications, now, storeVars, entityVars >>

\* rejection: await websocket.send_json({"type": "error", ...})
RejectSend(s) ==
    /\ pc[s] = "reject_send"
    /\ IF peer[s] = "open"
       THEN /\ sent' = [sent EXCEPT ![s] =
                          Append(@, ErrorFrame(RejectText(reject[s])))]
            /\ pc' = [pc EXCEPT ![s] = "reject_close"]
            /\ UNCHANGED << active_connections, bc, db, joined, raised,
                            ws_state >>
       ELSE /\ ExitRaising(s)
            /\ ws_state' = [ws_state EXCEPT ![s] = "closed"]
            /\ UNCHANGED sent
    /\ UNCHANGED << token, conversation_id, reject, peer, close_code, n_in,
                    messages, n_http, joined_at >>
    /\ UNCHANGED << data, notify, notifications, now, storeVars, entityVars >>

\* rejection: await websocket.close(code=...); return
RejectClose(s) ==
    /\ pc[s] = "reject_close"
    /\ ws_state' = [ws_state EXCEPT ![s] = "closed"]
    /\ IF peer[s] = "open"
       THEN /\ close_code' = [close_code EXCEPT ![s] = reject[s]]
            /\ pc' = [pc EXCEPT ![s] = "done"]
            /\ UNCHANGED raised
            /\ IF db[s] = "open" THEN Finally(s)
               ELSE UNCHANGED << active_connections, bc, db, joined >>
       ELSE /\ ExitRaising(s)
            /\ UNCHANGED close_code
    /\ UNCHANGED << token, conversation_id, reject, peer, sent, n_in,
                    messages, n_http, joined_at >>
    /\ UNCHANGED << data, notify, notifications, now, storeVars, entityVars >>

\* an accept that takes a WebSocket in any state
AcceptOk_AnyState(state) == TRUE

\* websocket.accept() succeeds only on a WebSocket not yet accepted or closed
AcceptOk(state) == state = "connecting"

\* await manager.connect(websocket, conversation_id)
Connect(s) ==
    /\ pc[s] = "connect"
    /\ IF AcceptOk(ws_state[s])
       THEN /\ ws_state' = [ws_state EXCEPT ![s] = "connected"]
            /\ active_connections' =
                  ConnectOp(active_connections, s, conversation_id[s])
            /\ joined' = [joined EXCEPT ![conversation_id[s]] = @ \cup {s}]
            /\ joined_at' = [joined_at EXCEPT ![s] = Len(messages)]
            /\ pc' = [pc EXCEPT ![s] = "send_connected"]
            /\ UNCHANGED << bc, db, raised >>
       ELSE /\ ExitRaising(s)
            /\ UNCHANGED << ws_state, joined_at >>
    /\ UNCHANGED << token, conversation_id, reject, peer, sent, close_code,
                    n_in, messages, n_http >>
    /\ UNCHANGED << data, notify, notifications, now, storeVars, entityVars >>

\* a send_personal that sends its frame twice
SendPersonal_Twice(s, frame) ==
    sent' = [sent EXCEPT ![s] = IF peer[s] = "open" THEN @ \o <<frame, frame>>
                                 ELSE @]

\* manager.send_personal: a failed send is logged, not raised
SendPersonal(s, frame) ==
    sent' = [sent EXCEPT ![s] = IF peer[s] = "open" THEN Append(@, frame)
                                 ELSE @]

\* await manager.send_personal(websocket, {"type": "connected", ...})
SendConnected(s) ==
    /\ pc[s] = "send_connected"
    /\ SendPersonal(s, ConnectedFrame(conversation_id[s],
                          SenderType(get_token_claims(token[s]).is_admin)))
    /\ pc' = [pc EXCEPT ![s] = "receive"]
    /\ UNCHANGED << active_connections, token, conversation_id, reject,
                    ws_state, peer, close_code, db, raised, n_in, bc,
                    messages, n_http, joined, joined_at >>
    /\ UNCHANGED << data, notify, notifications, now, storeVars, entityVars >>

\* manager.broadcast up to its first send: no room, no sends
StartBroadcast(s, cid, payload) ==
    IF cid \notin DOMAIN active_connections
    THEN /\ bc' = [bc EXCEPT ![s] =
                     [NoBroadcast EXCEPT !.phase = "returned", !.cid = cid,
                                         !.payload = payload]]
         /\ pc' = [pc EXCEPT ![s] = "receive"]
    ELSE /\ bc' = [bc EXCEPT ![s] =
                     [NoBroadcast EXCEPT !.phase = "sending", !.cid = cid,
                          !.payload = payload,
                          !.members0 = active_connections[cid]]]
         /\ pc' = [pc EXCEPT ![s] = "broadcast"]

\* data = await websocket.receive_json() returns a frame; the loop body runs
\* to its next await
Receive(s, frame, outcome) ==
    /\ pc[s] = "receive"
    /\ peer[s] = "open"
    /\ SumOver(n_in, Sessions) + n_http < MaxInbound
    /\ n_in' = [n_in EXCEPT ![s] = @ + 1]
    /\ data' = [data EXCEPT ![s] = frame]
    /\ LET claims == get_token_claims(token[s])
           sender_type == SenderType(claims.is_admin)
           content == Strip(frame)
       IN IF frame = BadFrame \/ (content # <<>> /\ db[s] = "failed")
          THEN \* .get or .strip or the commit of add_message raises
               /\ pc' = [pc EXCEPT ![s] = "send_failed_error"]
               /\ bc' = [bc EXCEPT ![s] = NoBroadcast]
               /\ UNCHANGED << messages, notifications, notify, db >>
          ELSE IF content = <<>>
          THEN /\ pc' = [pc EXCEPT ![s] = "send_empty_error"]
               /\ bc' = [bc EXCEPT ![s] = NoBroadcast]
               /\ UNCHANGED << messages, notifications, notify, db >>
          ELSE LET m == NewMessage(conversation_id[s], claims.user_id,
                                   sender_type, content)
                   o == IF sender_type = "user" THEN "none" ELSE outcome
               IN /\ messages' = Append(messages, m)
                  /\ notify' = [notify EXCEPT ![s] = o]
                  /\ notifications' =
                        Notified(notifications, o,
                            NewNotification(Conversations[conversation_id[s]],
                                "MESSAGE_RECEIVED", conversation_id[s]))
                  /\ db' = [db EXCEPT ![s] = SessionAfter(o)]
                  /\ IF sender_type = "user" \/ NotifyCaught(o)
                     THEN StartBroadcast(s, conversation_id[s],
                                         MessageFrame(m))
                     ELSE /\ pc' = [pc EXCEPT ![s] = "send_failed_error"]
                          /\ bc' = [bc EXCEPT ![s] = NoBroadcast]
    /\ UNCHANGED << active_connections, token, conversation_id, reject,
                    ws_state, peer, sent, close_code, raised, n_http,
                    joined, joined_at, now, storeVars, entityVars >>

\* receive_json raises WebSocketDisconnect: break, then the finally block
ReceiveDisconnect(s) ==
    /\ pc[s] = "receive"
    /\ peer[s] = "gone"
    /\ ws_state' = [ws_state EXCEPT ![s] = "closed"]
    /\ pc' = [pc EXCEPT ![s] = "done"]
    /\ Finally(s)
    /\ UNCHANGED << token, conversation_id, reject, peer, sent, close_code,
                    raised, n_in, messages, n_http, joined_at >>
    /\ UNCHANGED << data, notify, notifications, now, storeVars, entityVars >>

\* await manager.send_personal(websocket, {"type": "error", ...}); loop again
SendError(s) ==
    /\ pc[s] \in {"send_empty_error", "send_failed_error"}
    /\ SendPersonal(s, ErrorFrame(IF pc[s] = "send_empty_error"
                                  THEN "Message content cannot be empty"
                                  ELSE "Failed to process message"))
    /\ pc' = [pc EXCEPT ![s] = "receive"]
    /\ data' = [data EXCEPT ![s] = NoFrame]
    /\ notify' = [notify EXCEPT ![s] = "none"]
    /\ UNCHANGED << active_connections, token, conversation_id, reject,
                    ws_state, peer, close_code, db, raised, n_in, bc,
                    messages, n_http, joined, joined_at, notifications, now,
                    storeVars, entityVars >>

\* broadcast: the loop takes the next connection of the list and sends
BroadcastSend(s) ==
    /\ pc[s] = "broadcast"
    /\ bc[s].phase = "sending"
    /\ ~bc[s].detached
    /\ bc[s].idx <= Len(active_connections[bc[s].cid])
    /\ LET conn == active_connections[bc[s].cid][bc[s].idx]
           ok == peer[conn] = "open"
       IN /\ sent' = [sent EXCEPT ![conn] =
                         IF ok THEN Append(@, bc[s].payload) ELSE @]
          /\ bc' = [bc EXCEPT ![s] = SendOutcome(bc[s], conn, ok)]
    /\ UNCHANGED << active_connections, pc, token, conversation_id, reject,
                    ws_state, peer, close_code, db, raised, n_in, messages,
                    n_http, joined, joined_at >>
    /\ UNCHANGED << data, notify, notifications, now, storeVars, entityVars >>

\* broadcast: the loop is exhausted; dead connections are removed; return
BroadcastReturn(s) ==
    /\ pc[s] = "broadcast"
    /\ bc[s].phase = "sending"
    /\ IF bc[s].detached THEN TRUE
       ELSE bc[s].idx > Len(active_connections[bc[s].cid])
    /\ active_connections' =
          PruneOp(active_connections, bc[s].disconnected, bc[s].cid)
    /\ joined' = [joined EXCEPT ![bc[s].cid] = @ \ Elems(bc[s].disconnected)]
    /\ bc' = Detach(
                [bc EXCEPT ![s] =
                    [@ EXCEPT !.phase = "returned", !.idx = 1,
                              !.detached = FALSE,
                              !.intact = IF bc[s].detached THEN FALSE
                                         ELSE active_connections[bc[s].cid]
                                                 = bc[s].members0]],
                active_connections, active_connections')
    /\ pc' = [pc EXCEPT ![s] = "receive"]
    /\ data' = [data EXCEPT ![s] = NoFrame]
    /\ notify' = [notify EXCEPT ![s] = "none"]
    /\ UNCHANGED << token, conversation_id, reject, ws_state, peer, sent,
                    close_code, db, raised, n_in, messages, n_http, joined_at,
                    notifications, now, storeVars, entityVars >>

\* the client goes away
PeerDrop(s) ==
    /\ ws_state[s] = "connected"
    /\ peer[s] = "open"
    /\ peer' = [peer EXCEPT ![s] = "gone"]
    /\ UNCHANGED << active_connections, pc, token, conversation_id, reject,
                    ws_state, sent, close_code, db, raised, n_in, bc,
                    messages, n_http, joined, joined_at >>
    /\ UNCHANGED << data, notify, notifications, now, storeVars, entityVars >>

\* ---------------------------------------------------- SendMessageUseCase
\* POST .../messages: the use case persists the message and returns it
HttpSendMessage(uid, st, cid, content, outcome) ==
    /\ n_http < MaxHttp
    /\ SumOver(n_in, Sessions) + n_http < MaxInbound
    /\ IF cid \notin DOMAIN Conversations
       THEN UNCHANGED << messages, n_http, notifications >>
       ELSE IF st = "user" /\ Conversations[cid] # uid
       THEN UNCHANGED << messages, n_http, notifications >>
       ELSE IF Strip(content) = <<>>
       THEN UNCHANGED << messages, n_http, notifications >>
       ELSE /\ messages' = Append(messages,
                                  NewMessage(cid, uid, st, Strip(content)))
            /\ n_http' = n_http + 1
            /\ notifications' =
                  IF st = "admin" /\ NotifyCaught(outcome)
                  THEN Notified(notifications, outcome,
                           NewNotification(Conversations[cid],
                                           "MESSAGE_RECEIVED", cid))
                  ELSE notifications
    /\ UNCHANGED << active_connections, pc, token, conversation_id, reject,
                    ws_state, peer, sent, close_code, db, raised, n_in, bc,
                    joined, joined_at, data, notify, now, storeVars,
                    entityVars >>

\* callers of the two HTTP routes: a user as "user", the admin as "admin"
HttpCallers == { <<1, "user">>, <<2, "user">>, <<3, "admin">> }

\* Message.create(...): the entity, without an id, stamped by utcnow()
Message_create(cid, uid, st, content) ==
    [message_id |-> 0, conversation_id |-> cid, sender_id |-> uid,
     sender_type |-> st, content |-> Strip(content), created_at |-> now]

\* ConversationRepository.add_message(message): the row of the insert takes
\* the next id and the entity's created_at
Stored(rows, m) == [m EXCEPT !.message_id = Len(rows) + 1]

\* POST .../messages in thread c of the pool, up to Message.create: the
\* conversation is looked up, access is checked, the entity is created
HttpCreateMessage(c, uid, st, cid, content) ==
    /\ message[c] = NoMessage
    /\ Len(messages)
          + Cardinality({d \in Calls : message[d] # NoMessage}) < MaxInbound
    /\ cid \in DOMAIN Conversations
    /\ st = "user" => Conversations[cid] = uid
    /\ Strip(content) # <<>>
    /\ message' = [message EXCEPT ![c] = Message_create(cid, uid, st, content)]
    /\ UNCHANGED << request, booking, invoked, chatVars, messages,
                    notifications, now, storeVars >>

\* the rest of the call: conversation_repo.add_message(message), then the
\* notification of the conversation's user when an admin sent
HttpAddMessage(c, outcome) ==
    /\ message[c] # NoMessage
    /\ messages' = Append(messages, Stored(messages, message[c]))
    /\ notifications' =
          IF message[c].sender_type = "admin"
          THEN Notified(notifications, outcome,
                   NewNotification(Conversations[message[c].conversation_id],
                       "MESSAGE_RECEIVED", message[c].conversation_id))
          ELSE notifications
    /\ message' = [message EXCEPT ![c] = NoMessage]
    /\ UNCHANGED << request, booking, invoked, chatVars, now, storeVars >>


\* ------------------------------------------------------------------- Next
\* the WebSocket chat sessions and their clients
Next ==
    \/ \E s \in Sessions, tok \in Tokens, cid \in PathIds : Open(s, tok, cid)
    \/ \E s \in Sessions : RejectAccept(s)
    \/ \E s \in Sessions : RejectSend(s)
    \/ \E s \in Sessions : RejectClose(s)
    \/ \E s \in Sessions : Connect(s)
    \/ \E s \in Sessions : SendConnected(s)
    \/ \E s \in Sessions, frame \in Contents \cup {BadFrame},
          outcome \in NotifyOutcomes : Receive(s, frame, outcome)
    \/ \E s \in Sessions : ReceiveDisconnect(s)
    \/ \E s \in Sessions : SendError(s)
    \/ \E s \in Sessions : BroadcastSend(s)
    \/ \E s \in Sessions : BroadcastReturn(s)
    \/ \E s \in Sessions : PeerDrop(s)

Spec == Init /\ [][Next]_vars

\* time passes: datetime.utcnow() reads a later instant
Tick ==
    /\ now < MaxClock
    /\ now' = now + 1
    /\ UNCHANGED << active_connections, pc, token, conversation_id, reject,
                    ws_state, peer, sent, close_code, db, raised, n_in, bc,
                    messages, n_http, joined, joined_at, data, notify,
                    notifications, storeVars, entityVars >>

\* the chat sessions while time passes
NextClock == Next \/ Tick

SpecClock == Init /\ [][NextClock]_vars

\* send-message calls in the threads of the pool while time passes
NextSenders ==
    \/ Tick
    \/ \E c \in Calls, h \in HttpCallers, cid \in PathIds,
          content \in Contents : HttpCreateMessage(c, h[1], h[2], cid, content)
    \/ \E c \in Calls, outcome \in NotifyOutcomes : HttpAddMessage(c, outcome)

SpecSenders == Init /\ [][NextSenders]_vars

\* ------------------------------------------- the entities, any caller
\* Request.create(...): a new entity, status "new"
RequestCreate ==
    /\ request' = [status |-> "new", updated_at |-> now]
    /\ invoked' = [method |-> "create", raised |-> "none",
                   before |-> request, at |-> now]
    /\ UNCHANGED << booking, message, chatVars, messages, notifications,
                    now, storeVars >>

\* request.assign() / start_progress() / fulfill() / cancel()
RequestCall(method) ==
    /\ request' = CallRequest(method, request, now).entity
    /\ invoked' = [method |-> method,
                   raised |-> CallRequest(method, request, now).raised,
                   before |-> request, at |-> now]
    /\ UNCHANGED << booking, message, chatVars, messages, notifications,
                    now, storeVars >>

\* Booking.create(...): a new entity, status "upcoming"
BookingCreate ==
    /\ booking' = [status |-> "upcoming"]
    /\ invoked' = [method |-> "create_booking", raised |-> "none",
                   before |-> booking, at |-> now]
    /\ UNCHANGED << request, message, chatVars, messages, notifications,
                    now, storeVars >>

\* booking.complete() / booking.cancel()
BookingCall(method) ==
    /\ booking' = CallBooking(method, booking).entity
    /\ invoked' = [method |-> method,
                   raised |-> CallBooking(method, booking).raised,
                   before |-> booking, at |-> now]
    /\ UNCHANGED << request, message, chatVars, messages, notifications,
                    now, storeVars >>

NextEntities ==
    \/ Tick
    \/ RequestCreate
    \/ \E method \in RequestMethods : RequestCall(method)
    \/ BookingCreate
    \/ \E method \in BookingMethods : BookingCall(method)

SpecEntities == Init /\ [][NextEntities]_vars

\* ------------------------------------------------- the admin workflow
\* service_vendors rows, admin users, and the vendor ids a caller may name
Vendors == {1}
AdminIds == {3}
VendorInputs == {1, 7}
MIN_DESCRIPTION_LENGTH == 10
\* request descriptions a user may submit
Descriptions ==
    { << "h", "i" >>,
      << " ", "p", "r", "i", "v", "a", "t", "e", " ", "j", "e", "t" >> }
\* status strings an admin may put in the body of PATCH .../status
StatusInputs == {"upcoming", "completed", "cancelled", " Completed", "done"}
\* new_status.lower().strip() on those strings
Normalize(new_status) ==
    IF new_status = " Completed" THEN "completed" ELSE new_status

\* the tables at the start: the first request in any status the entity
\* defines and with a vendor, the others new and without, no booking yet
InitStore ==
    /\ InitSessions
    /\ InitLoop
    /\ InitEntities
    /\ \E st \in Request_VALID_STATUSES :
          requests = [r \in DOMAIN Conversations |->
                        [user_id |-> Conversations[r],
                         vendor_id |-> IF r \in Vendors THEN r ELSE 0,
                         status |-> IF r = 1 THEN st ELSE "new",
                         updated_at |-> 0]]
    /\ conversations = [c \in DOMAIN Conversations |->
                          [request_id |-> c, user_id |-> Conversations[c]]]
    /\ bookings = <<>>
    /\ calls = [c \in Calls |-> NoCall]
    /\ response = NoResponse

\* a conversation row that always points at the first request
NewConversation_FirstRequest(request_id, user_id) ==
    [request_id |-> 1, user_id |-> user_id]

\* Conversation.create(request_id, user_id) as conversation_repo.save stores it
NewConversation(request_id, user_id) ==
    [request_id |-> request_id, user_id |-> user_id]

\* SubmitRequestUseCase.execute(dto, user_id): the request, its conversation
\* and the first message are saved, then the admins are notified
SubmitRequest(user_id, vendor_id, description, outcome) ==
    /\ Len(requests) < MaxRows
    /\ Len(notifications) < MaxNotifications
    /\ IF vendor_id \notin Vendors
       THEN /\ response' = Response("submit", "ResourceNotFoundError", 0, "", 0,
                                    "")
            /\ UNCHANGED << requests, conversations, messages, notifications >>
       ELSE IF Len(Strip(description)) < MIN_DESCRIPTION_LENGTH
       THEN /\ response' = Response("submit", "InvalidRequestError", 0, "", 0,
                                    "")
            /\ UNCHANGED << requests, conversations, messages, notifications >>
       ELSE LET rid == Len(requests) + 1
                cid == Len(conversations) + 1
            IN /\ requests' = Append(requests,
                                 [user_id |-> user_id, vendor_id |-> vendor_id,
                                  status |-> "new", updated_at |-> now])
               /\ conversations' =
                     Append(conversations, NewConversation(rid, user_id))
               /\ messages' = Append(messages,
                                 NewMessage(cid, user_id, "user",
                                            Strip(description)))
               /\ notifications' =
                     IF NotifyCaught(outcome)
                     THEN Notified(notifications, outcome,
                              NewNotification(CHOOSE a \in AdminIds : TRUE,
                                              "NEW_REQUEST", rid))
                     ELSE notifications
               /\ response' = Response("submit", "ok", rid, "new", 0, "")
    /\ UNCHANGED << bookings, calls, chatVars, now, entityVars >>

\* the Request entity of a requests row
EntityOf(row) == [status |-> row.status, updated_at |-> row.updated_at]

\* a confirmation that takes a request in any status as it is
Confirmable_AnyStatus(r, t) == Returned(r)

\* a confirmation that puts a request in any status in progress
Confirmable_Reopens(r, t) ==
    Returned([status |-> "in_progress", updated_at |-> t])

\* CreateBookingUseCase.execute, the branch on request.status: the request
\* as the transitions leave it, or the ValidationError
Confirmable(r, t) ==
    IF r.status = "in_progress" THEN Returned(r)
    ELSE IF r.status = "assigned" THEN Request_start_progress(r, t)
    ELSE IF r.status = "new"
    THEN Request_start_progress(Request_assign(r, t).entity, t)
    ELSE Raised("ValidationError", r)

\* booking_repo.save(booking): a commit on a session whose flush failed
\* raises until the session is rolled back
SaveRaises(session) == session = "failed"

\* CreateBookingUseCase.execute(dto, admin_id) with dto.request_id and
\* dto.vendor_id (0: None), its two notification calls ending as o1 and o2
CreateBooking(request_id, vendor_id, admin_id, o1, o2) ==
    IF request_id \notin DOMAIN requests
    THEN /\ response' = Response("confirm", "ResourceNotFoundError", 0, "",
                               request_id, "")
         /\ UNCHANGED << requests, bookings, notifications >>
    ELSE LET row == requests[request_id]
             res == Confirmable(EntityOf(row), now)
             bid == Len(bookings) + 1
             saved == [request_id |-> request_id, user_id |-> row.user_id,
                       vendor_id |-> IF vendor_id # 0 THEN vendor_id
                                     ELSE row.vendor_id,
                       status |-> "upcoming", created_by |-> admin_id]
             after1 == Notified(notifications, o1,
                           NewNotification(row.user_id, "REQUEST_UPDATED",
                                           request_id))
         IN IF res.raised # "none"
            THEN /\ response' = Response("confirm", res.raised, 0, "",
                                       request_id, row.status)
                 /\ UNCHANGED << requests, bookings, notifications >>
            ELSE /\ requests' =
                       [requests EXCEPT ![request_id] =
                           [@ EXCEPT !.status = res.entity.status,
                                     !.updated_at = res.entity.updated_at]]
                 /\ IF ~NotifyCaught(o1)
                    THEN /\ response' = Response("confirm", "Exception", 0, "",
                                               request_id, row.status)
                         /\ UNCHANGED << bookings, notifications >>
                    ELSE IF SaveRaises(SessionAfter(o1))
                    THEN /\ response' =
                               Response("confirm", "PendingRollbackError", 0,
                                        "", request_id, row.status)
                         /\ notifications' = after1
                         /\ UNCHANGED bookings
                    ELSE /\ bookings' = Append(bookings, saved)
                         /\ notifications' =
                               IF NotifyCaught(o2)
                               THEN Notified(after1, o2,
                                        NewNotification(saved.user_id,
                                            "BOOKING_CONFIRMED", bid))
                               ELSE after1
                         /\ response' =
                               Response("confirm",
                                        IF NotifyCaught(o2) THEN "ok"
                                        ELSE "Exception",
                                        bid, saved.status, request_id,
                                        row.status)

\* POST /admin/conversations/{conversation_id}/confirm
Confirm(conversation_id_, admin_id, o1, o2) ==
    /\ Len(bookings) < MaxBookings
    /\ Len(notifications) < MaxNotifications
    /\ IF conversation_id_ \notin DOMAIN conversations
       THEN /\ response' = Response("confirm", "HTTP_404", 0, "", 0, "")
            /\ UNCHANGED << requests, bookings, notifications >>
       ELSE CreateBooking(
               conversations[conversation_id_].request_id,
               requests[conversations[conversation_id_].request_id].vendor_id,
               admin_id, o1, o2)
    /\ UNCHANGED << conversations, calls, messages, chatVars, now,
                    entityVars >>

\* an update that sets the target status whatever the booking's status
Transition_Unguarded(target, b) == Returned([status |-> target])

\* UpdateBookingStatusUseCase.execute, "update status based on action": the
\* booking entity as the branch leaves it, or the exception
Transition(target, b) ==
    IF target = "completed" THEN Booking_complete(b)
    ELSE IF target = "cancelled" THEN Booking_cancel(b)
    ELSE IF b.status = "completed" THEN Raised("ValidationError", b)
    ELSE Returned([status |-> "upcoming"])

\* PATCH /admin/bookings/{booking_id}/status, up to booking_repo.find_by_id:
\* the status string is validated and the booking row is read
UpdateStatusFind(c, booking_id, new_status) ==
    /\ calls[c].pc = "idle"
    /\ Len(notifications) < MaxNotifications
    /\ IF Normalize(new_status) \notin Booking_VALID_STATUSES
       THEN /\ response' = Response("update_status", "ValidationError", 0,
                                    "", booking_id, "")
            /\ UNCHANGED calls
       ELSE IF booking_id \notin DOMAIN bookings
       THEN /\ response' = Response("update_status", "ResourceNotFoundError",
                                    0, "", booking_id, "")
            /\ UNCHANGED calls
       ELSE /\ calls' = [calls EXCEPT ![c] =
                           [pc |-> "found", booking_id |-> booking_id,
                            target |-> Normalize(new_status),
                            status |-> bookings[booking_id].status,
                            old_status |-> bookings[booking_id].status]]
            /\ UNCHANGED response
    /\ UNCHANGED << requests, conversations, bookings, messages,
                    notifications, chatVars, now, entityVars >>

\* the rest of the call: the transition on the entity that was read,
\* booking_repo.update (the row takes the entity's status), the
\* notification, the response
UpdateStatusWrite(c, outcome) ==
    /\ calls[c].pc = "found"
    /\ LET id == calls[c].booking_id
           target == calls[c].target
           res == Transition(target, [status |-> calls[c].status])
           o == IF calls[c].old_status # target
                   /\ target \in {"completed", "cancelled"}
                THEN outcome ELSE "none"
       IN IF res.raised # "none"
          THEN /\ response' = Response("update_status", res.raised, id,
                                       calls[c].status, id, calls[c].status)
               /\ UNCHANGED << bookings, notifications >>
          ELSE /\ bookings' = [bookings EXCEPT
                                 ![id].status = res.entity.status]
               /\ notifications' =
                     IF o # "none" /\ NotifyCaught(o)
                     THEN Notified(notifications, o,
                              NewNotification(bookings[id].user_id,
                                  IF target = "completed" THEN "GENERAL"
                                  ELSE "BOOKING_CANCELLED", id))
                     ELSE notifications
               /\ response' =
                     Response("update_status",
                              IF o = "none" \/ NotifyCaught(o) THEN "ok"
                              ELSE "Exception",
                              id, res.entity.status, id, calls[c].status)
    /\ calls' = [calls EXCEPT ![c] = NoCall]
    /\ UNCHANGED << requests, conversations, messages, chatVars, now,
                    entityVars >>

\* the request workflow: users submit requests and the admin confirms
\* conversations, while time passes
NextStore ==
    \/ Tick
    \/ \E u \in DOMAIN Conversations, v \in VendorInputs,
          d \in Descriptions, o \in NotifyOutcomes : SubmitRequest(u, v, d, o)
    \/ \E cid \in PathIds \cup {MaxRows}, a \in AdminIds,
          o1 \in NotifyOutcomes, o2 \in NotifyOutcomes : Confirm(cid, a, o1, o2)

SpecStore == InitStore /\ [][NextStore]_vars

\* every way a request's status is changed: the methods of the entity, by
\* any caller, and the confirmations of the admin on the stored rows
NextRequests ==
    \/ Tick
    \/ RequestCreate
    \/ \E method \in RequestMethods : RequestCall(method)
    \/ \E cid \in PathIds \cup {MaxRows}, a \in AdminIds,
          o1 \in NotifyOutcomes, o2 \in NotifyOutcomes : Confirm(cid, a, o1, o2)

SpecRequests == InitStore /\ [][NextRequests]_vars

\* the bookings the confirmations of the conversations have created
InitBookings ==
    /\ InitSessions
    /\ InitLoop
    /\ InitEntities
    /\ requests = [r \in DOMAIN Conversations |->
                     [user_id |-> Conversations[r],
                      vendor_id |-> IF r \in Vendors THEN r ELSE 0,
                      status |-> "in_progress", updated_at |-> 0]]
    /\ conversations = [c \in DOMAIN Conversations |->
                          [request_id |-> c, user_id |-> Conversations[c]]]
    /\ bookings = [b \in 1..MaxBookings |->
                     [request_id |-> 1, user_id |-> requests[1].user_id,
                      vendor_id |-> requests[1].vendor_id,
                      status |-> "upcoming",
                      created_by |-> CHOOSE a \in AdminIds : TRUE]]
    /\ calls = [c \in Calls |-> NoCall]
    /\ response = NoResponse

\* the admin updates booking statuses, from several threads of the pool
NextBookings ==
    \/ \E c \in Calls, b \in 1..MaxBookings + 1, st \in StatusInputs :
          UpdateStatusFind(c, b, st)
    \/ \E c \in Calls, o \in NotifyOutcomes : UpdateStatusWrite(c, o)

SpecBookings == InitBookings /\ [][NextBookings]_vars

\* the chat sessions together with the HTTP send-message routes
HttpSend ==
    \E c \in HttpCallers, cid \in PathIds, content \in Contents,
       outcome \in NotifyOutcomes :
        HttpSendMessage(c[1], c[2], cid, content, outcome)

NextHttp == Next \/ HttpSend

SpecHttp == Init /\ [][NextHttp]_vars

\* Every step a handler task takes once the event loop resumes it.  The
\* client's steps (Open, Receive, PeerDrop) are not the server's to take.
HandlerStep(s) ==
    \/ RejectAccept(s) \/ RejectSend(s) \/ RejectClose(s)
    \/ Connect(s) \/ SendConnected(s) \/ ReceiveDisconnect(s)
    \/ SendError(s) \/ BroadcastSend(s) \/ BroadcastReturn(s)

\* the event loop resumes every task whose awaited call can complete
SpecFair == Spec /\ \A s \in Sessions : WF_vars(HandlerStep(s))

\* ------------------------------------------- ConnectionManager, any caller
\* The manager under arbitrary connect and disconnect calls: callers that
\* are not bound to the one-connect-per-handler discipline of websocket_chat.
InitManager ==
    /\ active_connections = << >>
    /\ pc = [s \in Sessions |-> "idle"]
    /\ token = [s \in Sessions |-> NoToken]
    /\ conversation_id = [w \in Sockets |-> 0]
    /\ reject = [s \in Sessions |-> 0]
    /\ ws_state = [w \in Sockets |-> "connecting"]
    /\ peer = [w \in Sockets |-> "open"]
    /\ sent = [w \in Sockets |-> <<>>]
    /\ close_code = [s \in Sessions |-> 0]
    /\ db = [s \in Sessions |-> "none"]
    /\ raised = [w \in Sockets |-> FALSE]
    /\ n_in = [s \in Sessions |-> 0]
    /\ bc = [s \in Sessions |-> NoBroadcast]
    /\ messages = <<>>
    /\ n_http = 0
    /\ joined = [c \in PathIds |-> {}]
    /\ joined_at = [s \in Sessions |-> 0]
    /\ InitLoop
    /\ InitRows
    /\ InitEntities

\* await manager.connect(w, cid): the accept, then the registration; an
\* accept that fails raises before the registration
MgrConnect(w, cid) ==
    /\ conversation_id' = [conversation_id EXCEPT ![w] = cid]
    /\ IF AcceptOk(ws_state[w])
       THEN /\ ws_state' = [ws_state EXCEPT ![w] = "connected"]
            /\ active_connections' = ConnectOp(active_connections, w, cid)
            /\ joined' = [joined EXCEPT ![cid] = @ \cup {w}]
            /\ raised' = [raised EXCEPT ![w] = FALSE]
       ELSE /\ raised' = [raised EXCEPT ![w] = TRUE]
            /\ UNCHANGED << ws_state, active_connections, joined >>
    /\ UNCHANGED << pc, token, reject, peer, sent, close_code, db, n_in, bc,
                    messages, n_http, joined_at >>
    /\ UNCHANGED << data, notify, notifications, now, storeVars, entityVars >>

\* manager.disconnect(w, cid)
MgrDisconnect(w, cid) ==
    /\ active_connections' = DisconnectOp(active_connections, w, cid)
    /\ joined' = [joined EXCEPT ![cid] = @ \ {w}]
    /\ UNCHANGED << pc, token, conversation_id, reject, ws_state, peer, sent,
                    close_code, db, raised, n_in, bc, messages, n_http,
                    joined_at >>
    /\ UNCHANGED << data, notify, notifications, now, storeVars, entityVars >>

NextManager ==
    \/ \E w \in Sockets, cid \in PathIds : MgrConnect(w, cid)
    \/ \E w \in Sockets, cid \in PathIds : MgrDisconnect(w, cid)

SpecManager == InitManager /\ [][NextManager]_vars

\* ======================================================================
\* Properties
\* ======================================================================
InRoom(s, cid) == s \in Elems(Room(active_connections, cid))

IsMessageFrame(f) == f.type = "message"

\* C1: when a broadcast has returned, every connection whose send failed is
\* out of the room, control is back in the caller's receive loop without an
\* exception, and - the room not having changed under the broadcast - every
\* member of the room either had its send fail or holds the payload: a
\* failed send does not keep the payload from the members after it.
C1_BroadcastIsolatesFailures ==
    \A s \in Sessions :
        bc[s].phase = "returned" =>
            /\ \A c \in Elems(bc[s].disconnected) : ~InRoom(c, bc[s].cid)
            /\ pc[s] \in {"receive", "done"}
            /\ ~raised[s]
            /\ bc[s].intact =>
                 \A c \in Elems(bc[s].members0) :
                     \/ c \in Elems(bc[s].disconnected)
                     \/ bc[s].payload \in Elems(sent[c])

\* a returned broadcast in which a send failed and a later send succeeded
C1_Witness ==
    \E s \in Sessions :
        /\ bc[s].phase = "returned"
        /\ bc[s].intact
        /\ \E i, j \in 1..Len(bc[s].members0) :
              /\ i < j
              /\ bc[s].members0[i] \in Elems(bc[s].disconnected)
              /\ bc[s].payload \in Elems(sent[bc[s].members0[j]])

\* no manager.broadcast call is at work on the room of conversation cid
Quiet(cid) ==
    \A t \in Sessions : ~(pc[t] = "broadcast" /\ bc[t].cid = cid)

\* how many times frame f occurs among the frames client s was sent
Copies(s, f) == Cardinality({ i \in 1..Len(sent[s]) : sent[s][i] = f })

\* C2: once no broadcast is at work on a conversation, a connection that is
\* joined to its room with a healthy transport has been sent exactly one
\* message frame for every message persisted to the conversation since the
\* connection joined, whichever path persisted it.
C2_EveryPersistedMessageDelivered ==
    \A s \in Sessions :
        (/\ InRoom(s, conversation_id[s])
         /\ peer[s] = "open"
         /\ Quiet(conversation_id[s]))
        => \A k \in (joined_at[s] + 1)..Len(messages) :
               messages[k].conversation_id = conversation_id[s]
               => Copies(s, MessageFrame(messages[k])) = 1

\* C3: the message frames of one conversation reach every connection in the
\* order in which their messages were persisted (increasing message_id).
C3_FramesInPersistOrder ==
    \A s \in Sessions :
        \A i, j \in 1..Len(sent[s]) :
            (/\ i < j
             /\ IsMessageFrame(sent[s][i])
             /\ IsMessageFrame(sent[s][j])
             /\ sent[s][i].conversation_id = sent[s][j].conversation_id)
            => sent[s][i].id < sent[s][j].id

\* C4: the connections in the room of a conversation are exactly those whose
\* connect has completed and that no disconnect (teardown or the pruning of
\* a broadcast) has removed since.
C4_RoomIsJoinedSet ==
    \A cid \in PathIds :
        Elems(Room(active_connections, cid)) = joined[cid]

\* a room that lost a connection to the pruning of a broadcast while
\* another connection stays in it
C4_Witness ==
    \E s, t, u \in Sessions :
        /\ bc[s].phase = "returned"
        /\ t \in Elems(bc[s].disconnected)
        /\ pc[t] # "done"
        /\ u # t
        /\ InRoom(u, bc[s].cid)
        /\ joined[bc[s].cid] = {u}

\* C5: a conversation id is a key of the registry only while its room holds
\* a connection: no key maps to an empty list, and no connection is
\* registered under a missing key.
C5_NoEmptyRoom ==
    /\ \A cid \in DOMAIN active_connections : active_connections[cid] # <<>>
    /\ \A cid \in PathIds :
          cid \in DOMAIN active_connections <=> joined[cid] # {}

\* the registry is empty again after its only connection was torn down
C5_Witness ==
    /\ DOMAIN active_connections = {}
    /\ \E s \in Sessions :
          /\ pc[s] = "done"
          /\ reject[s] = 0
          /\ ConnectedFrame(conversation_id[s],
                 SenderType(token[s].is_admin)) \in Elems(sent[s])

\* C6: in every registry the program reaches and for every connection and
\* conversation, disconnecting twice gives the registry that disconnecting
\* once gives, and disconnecting a connection that is not in the room (or
\* whose room does not exist) gives the registry back unchanged.
C6_DisconnectIdempotent ==
    \A w \in Sessions, cid \in PathIds :
        LET once == DisconnectOp(active_connections, w, cid)
        IN /\ DisconnectOp(once, w, cid) = once
           /\ ~InRoom(w, cid) => once = active_connections

\* a session torn down after a broadcast had already pruned its connection,
\* while another connection is in the room: its disconnect ran a second time
C6_Witness ==
    \E s, t \in Sessions :
        /\ s # t
        /\ bc[s].phase = "returned"
        /\ t \in Elems(bc[s].disconnected)
        /\ pc[t] = "done"
        /\ InRoom(s, bc[s].cid)

\* the close code the protocol prescribes for the attempt of session s
\* (0: the attempt is to be let in)
PrescribedClose(s) ==
    IF ~token[s].valid \/ token[s].user_id = 0 THEN 4001
    ELSE IF conversation_id[s] \notin DOMAIN Conversations THEN 4004
    ELSE IF ~token[s].is_admin
            /\ Conversations[conversation_id[s]] # token[s].user_id THEN 4003
    ELSE 0

\* C8: an attempt with a bad token (4001), for a missing conversation (4004)
\* or by a non-admin who does not own the conversation (4003) is never in a
\* room, never has an inbound frame read or a message persisted for it, is
\* sent nothing but the one error frame; and when its handler has returned
\* (the peer not having gone away first) it was sent exactly that error
\* frame and then closed with the prescribed code.
C8_RejectedAttempt ==
    \A s \in Sessions :
        (pc[s] # "idle" /\ PrescribedClose(s) # 0) =>
            /\ \A cid \in PathIds : ~InRoom(s, cid) /\ s \notin joined[cid]
            /\ n_in[s] = 0
            /\ bc[s].phase = "none"
            /\ sent[s] \in {<<>>, <<ErrorFrame(RejectText(PrescribedClose(s)))>>}
            /\ close_code[s] \in {0, PrescribedClose(s)}
            /\ (pc[s] = "done" /\ ~raised[s]) =>
                  /\ sent[s] = <<ErrorFrame(RejectText(PrescribedClose(s)))>>
                  /\ close_code[s] = PrescribedClose(s)
                  /\ ws_state[s] = "closed"

\* one attempt was closed for its token and another for access denied
C8_Witness ==
    \E s, t \in Sessions :
        /\ pc[s] = "done" /\ close_code[s] = 4001
        /\ pc[t] = "done" /\ close_code[t] = 4003
        /\ sent[s] # <<>> /\ sent[t] # <<>>

\* C9: every connection in the room of a conversation was opened with an
\* admin token or with the token of the conversation's owner, and every
\* message frame a client was sent belongs to a conversation its token's
\* user owns, unless the token is an admin's.
C9_OnlyAdminOrOwner ==
    /\ \A cid \in DOMAIN active_connections :
          \A s \in Elems(active_connections[cid]) :
              /\ cid \in DOMAIN Conversations
              /\ token[s].valid
              /\ token[s].is_admin \/ Conversations[cid] = token[s].user_id
    /\ \A s \in Sessions :
          \A i \in 1..Len(sent[s]) :
              IsMessageFrame(sent[s][i]) =>
                  \/ token[s].is_admin
                  \/ Conversations[sent[s][i].conversation_id] = token[s].user_id

\* the owner and an admin share a room and the owner was sent the admin's
\* message
C9_Witness ==
    \E s, t \in Sessions :
        /\ s # t
        /\ InRoom(s, conversation_id[s])
        /\ InRoom(t, conversation_id[s])
        /\ ~token[s].is_admin
        /\ token[t].is_admin
        /\ \E i \in 1..Len(sent[s]) :
              /\ IsMessageFrame(sent[s][i])
              /\ sent[s][i].sender_type = "admin"

\* where a handler stands between its join and its teardown
JoinedPcs ==
    {"send_connected", "receive", "send_empty_error", "send_failed_error",
     "broadcast"}

TornDown(s) ==
    /\ pc[s] = "done"
    /\ db[s] = "closed"
    /\ \A cid \in PathIds : ~InRoom(s, cid)

\* C10: a joined session whose transport is gone is eventually torn down
\* (out of its room, database session closed); a handler that obtained a
\* database session never ends without that teardown; the database session
\* goes from open to closed once and for all, and from then on the handler
\* takes no step and its connection is in no room.
C10_TeardownOnDisconnect ==
    /\ \A s \in Sessions :
          (pc[s] \in JoinedPcs /\ peer[s] = "gone") ~> TornDown(s)
    /\ [](\A s \in Sessions :
             (pc[s] = "done" /\ db[s] # "none") => TornDown(s))
    /\ [][\A s \in Sessions :
             /\ db[s] # db'[s] =>
                   \/ db[s] = "none" /\ db'[s] = "open"
                   \/ db[s] = "open" /\ db'[s] = "failed"
                   \/ /\ db[s] \in {"open", "failed"}
                      /\ db'[s] = "closed"
                      /\ pc'[s] = "done"
             /\ db[s] = "closed" => TornDown(s)']_vars

\* a session that joined, lost its transport in the receive loop and was
\* torn down while the other connection stays in the room
C10_Witness ==
    \E s, t \in Sessions :
        /\ s # t
        /\ TornDown(s)
        /\ reject[s] = 0
        /\ peer[s] = "gone"
        /\ ~raised[s]
        /\ sent[s] # <<>>
        /\ InRoom(t, conversation_id[s])

Blank(frame) ==
    /\ frame \notin {NoFrame, BadFrame}
    /\ \A i \in 1..Len(frame) : frame[i] = " "

EmptyContentText == "Message content cannot be empty"

\* C11: in the receive loop a frame whose content is empty after trimming
\* persists no message and starts no broadcast (the step that takes the
\* frame changes no table, no room and no client's frames), then one error
\* frame goes to the sender and to nobody else, and the session is back at
\* receive_json with the room as it was.
C11_EmptyContentRejected ==
    [][ \A s \in Sessions :
          /\ (pc[s] = "receive" /\ Blank(data'[s]))
                => /\ pc'[s] = "send_empty_error"
                   /\ messages' = messages
                   /\ notifications' = notifications
                   /\ sent' = sent
                   /\ active_connections' = active_connections
                   /\ bc'[s].phase # "sending"
          /\ (pc[s] = "send_empty_error" /\ pc'[s] # pc[s])
                => /\ Blank(data[s])
                   /\ pc'[s] = "receive"
                   /\ messages' = messages
                   /\ active_connections' = active_connections
                   /\ bc' = bc
                   /\ \A t \in Sessions \ {s} : sent'[t] = sent[t]
                   /\ sent'[s] = IF peer[s] = "open"
                                 THEN Append(sent[s],
                                             ErrorFrame(EmptyContentText))
                                 ELSE sent[s] ]_vars

\* a joined session got the empty-content error and, later, the frame of a
\* message it sent itself, while another member of the room got no error
C11_Witness ==
    \E s \in Sessions, t \in Sessions :
        /\ s # t
        /\ InRoom(s, conversation_id[s])
        /\ InRoom(t, conversation_id[s])
        /\ pc[s] = "receive"
        /\ \E i, j \in 1..Len(sent[s]) :
              /\ i < j
              /\ sent[s][i] = ErrorFrame(EmptyContentText)
              /\ IsMessageFrame(sent[s][j])
              /\ sent[s][j].sender_id = token[s].user_id
        /\ \A i \in 1..Len(sent[t]) : sent[t][i].type # "error"
        /\ Len(messages) = 1

\* ------------------------------------------------------------------- C12
\* n blanks
Blanks(n) == [i \in 1..n |-> " "]

\* content is what is left of raw once the blanks around it are removed
TrimOf(content, raw) ==
    /\ content # <<>>
    /\ content[1] # " "
    /\ content[Len(content)] # " "
    /\ \E i, j \in 0..Len(raw) : raw = Blanks(i) \o content \o Blanks(j)

\* the sender type of a session, from the is_admin flag of its token
RoleOf(s) == IF token[s].is_admin THEN "admin" ELSE "user"

\* the message frame f carries the fields of the persisted message m
FrameOf(f, m) ==
    /\ f.id = m.message_id
    /\ f.conversation_id = m.conversation_id
    /\ f.sender_id = m.sender_id
    /\ f.sender_type = m.sender_type
    /\ f.content = m.content
    /\ f.created_at = isoformat(m.created_at)

\* the step persists a message for the frame session s has just received,
\* with the session's user, role and trimmed content, and hands its frame
\* to broadcast
PersistsFor(s) ==
    /\ n_in'[s] = n_in[s] + 1
    /\ Len(messages') = Len(messages) + 1
    /\ LET m == messages'[Len(messages')]
       IN /\ m.message_id = Len(messages')
          /\ m.conversation_id = conversation_id[s]
          /\ m.sender_id = token[s].user_id
          /\ m.sender_type = RoleOf(s)
          /\ TrimOf(m.content, data'[s])
          /\ m.created_at = now
          /\ bc'[s].payload.type = "message"
          /\ FrameOf(bc'[s].payload, m)

\* C12: every message a chat session persists has the session's user_id as
\* sender_id, sender_type "admin" if the token's is_admin flag is set and
\* "user" otherwise, and the trimmed inbound content; every message frame
\* sent to a client carries the id, sender_id, sender_type, content and
\* created_at of the persisted message; the connected frame of a session
\* names the session's sender type.
C12_MessageFields ==
    /\ [][ messages' # messages => \E s \in Sessions : PersistsFor(s) ]_vars
    /\ [](\A s \in Sessions : \A i \in 1..Len(sent[s]) :
            /\ IsMessageFrame(sent[s][i])
                  => /\ sent[s][i].id \in 1..Len(messages)
                     /\ FrameOf(sent[s][i], messages[sent[s][i].id])
            /\ sent[s][i].type = "connected"
                  => sent[s][i].user_type = RoleOf(s))

\* a member got the frame of a message an admin session sent after the
\* clock had moved, and the admin session its connected frame
C12_Witness ==
    \E s \in Sessions, t \in Sessions :
        /\ s # t
        /\ token[s].is_admin
        /\ \E i \in 1..Len(sent[s]) :
              sent[s][i].type = "connected" /\ sent[s][i].user_type = "admin"
        /\ \E i \in 1..Len(sent[t]) :
              /\ IsMessageFrame(sent[t][i])
              /\ sent[t][i].sender_id = token[s].user_id
              /\ sent[t][i].sender_type = "admin"
              /\ sent[t][i].content = <<"a">>
              /\ sent[t][i].created_at = << 0, 1 >>

\* ------------------------------------------------------------------- C14
\* the statuses a Request method is allowed from, and the status it gives
AllowedFrom(method) ==
    IF method = "assign" THEN {"new"}
    ELSE IF method = "start_progress" THEN {"assigned"}
    ELSE IF method = "fulfill" THEN {"in_progress"}
    ELSE {"new", "assigned", "in_progress"}

LeadsTo(method) ==
    IF method = "assign" THEN "assigned"
    ELSE IF method = "start_progress" THEN "in_progress"
    ELSE IF method = "fulfill" THEN "fulfilled"
    ELSE "cancelled"

\* C14: assign succeeds only from new (to assigned), start_progress only
\* from assigned (to in_progress), fulfill only from in_progress (to
\* fulfilled), cancel only from new, assigned or in_progress (to cancelled),
\* and a successful call stamps updated_at; every other call raises
\* InvalidRequestError and leaves status and updated_at as they were.
C14_RequestTransitions ==
    invoked.method \in RequestMethods =>
        IF invoked.before.status \in AllowedFrom(invoked.method)
        THEN /\ invoked.raised = "none"
             /\ request = [status |-> LeadsTo(invoked.method),
                           updated_at |-> invoked.at]
        ELSE /\ invoked.raised = "InvalidRequestError"
             /\ request = invoked.before

\* cancel was called on a fulfilled request after the clock had moved: it
\* raised and the request kept its status and its earlier updated_at
C14_Witness ==
    /\ invoked.method = "cancel"
    /\ invoked.before.status = "fulfilled"
    /\ invoked.raised = "InvalidRequestError"
    /\ invoked.at > request.updated_at
    /\ request.status = "fulfilled"

\* ------------------------------------------------------------------- C17
\* C17: complete succeeds only on an upcoming booking (to completed) and
\* otherwise raises InvalidBookingError leaving the status; cancel raises
\* only on a completed booking and otherwise sets cancelled, so cancelling
\* a cancelled booking succeeds and leaves it cancelled.
C17_BookingTransitions ==
    /\ invoked.method = "complete" =>
          IF invoked.before.status = "upcoming"
          THEN invoked.raised = "none" /\ booking.status = "completed"
          ELSE /\ invoked.raised = "InvalidBookingError"
               /\ booking = invoked.before
    /\ invoked.method = "cancel_booking" =>
          IF invoked.before.status = "completed"
          THEN /\ invoked.raised = "InvalidBookingError"
               /\ booking = invoked.before
          ELSE invoked.raised = "none" /\ booking.status = "cancelled"

\* cancel was called on a cancelled booking: no exception, still cancelled
C17_Witness ==
    /\ invoked.method = "cancel_booking"
    /\ invoked.before.status = "cancelled"
    /\ invoked.raised = "none"
    /\ booking.status = "cancelled"

\* a step of the chat loop that takes a message of an admin whose
\* notification fails: the message is stored and its broadcast starts
ChatSendSurvives ==
    \A s \in Sessions :
        (/\ pc[s] = "receive" /\ pc'[s] # "receive"
         /\ notify'[s] \in {"raise", "raise_flush"})
        => /\ Len(messages') = Len(messages) + 1
           /\ bc'[s].payload = MessageFrame(messages'[Len(messages')])
           /\ pc'[s] = "broadcast"

\* a step of a confirmation call that got past the check of the request's
\* status
ConfirmStep ==
    /\ response'.op = "confirm"
    /\ response'.ref \in DOMAIN requests
    /\ \/ response' # response
       \/ requests' # requests
       \/ bookings' # bookings
       \/ notifications' # notifications

\* the statuses a confirmation accepts
ConfirmableStatuses == {"new", "assigned", "in_progress"}

\* a confirmation of a request in an accepted status ends with the booking
\* created and returned, whatever its notifications did
ConfirmSurvives ==
    (ConfirmStep /\ requests[response'.ref].status \in ConfirmableStatuses)
    => /\ response'.result = "ok"
       /\ Len(bookings') = Len(bookings) + 1
       /\ response'.id = Len(bookings')
       /\ bookings'[Len(bookings')].request_id = response'.ref

\* a status update that changes a booking ends with the new status
\* returned, whether or not its notification was stored
StatusUpdateSurvives ==
    \A b \in DOMAIN bookings :
        bookings'[b].status # bookings[b].status
        => /\ response'.op = "update_status"
           /\ response'.result = "ok"
           /\ response'.id = b
           /\ response'.status = bookings'[b].status

\* C13: a failure of the notification service never aborts the operation
\* that triggered it: a chat message is stored and broadcast, a booking
\* confirmation creates and returns its booking, and a booking status
\* update persists and returns the new status
C13_NotificationFailureIsolated ==
    [][ChatSendSurvives /\ ConfirmSurvives /\ StatusUpdateSurvives]_vars

\* the booking a confirmation of request rid is to create: upcoming, for the
\* request's user and the vendor the call names (the conversation's, which
\* is the request's)
BookingFor(rid, row) ==
    /\ row.request_id = rid
    /\ row.user_id = requests[rid].user_id
    /\ row.vendor_id = requests[rid].vendor_id
    /\ row.status = "upcoming"
    /\ row.created_by \in AdminIds

\* what a confirmation of request rid leaves behind
ConfirmEffect(rid) ==
    /\ requests'[rid].status = "in_progress"
    /\ IF requests[rid].status = "in_progress"
       THEN requests'[rid] = requests[rid]
       ELSE requests'[rid] = [requests[rid] EXCEPT !.status = "in_progress",
                                                   !.updated_at = now]
    /\ \A r \in DOMAIN requests \ {rid} : requests'[r] = requests[r]
    /\ Len(bookings') = Len(bookings) + 1
    /\ SubSeq(bookings', 1, Len(bookings)) = bookings
    /\ BookingFor(rid, bookings'[Len(bookings')])

\* C15: a confirmation of a conversation whose request is new, assigned or
\* in_progress leaves the request in_progress (new through assign and
\* start_progress, assigned through start_progress, in_progress untouched)
\* and creates exactly one booking, upcoming, for the request's user and the
\* call's vendor; the bookings that existed are unchanged
C15_ConfirmCreatesBooking ==
    [][(ConfirmStep /\ requests[response'.ref].status \in ConfirmableStatuses)
       => ConfirmEffect(response'.ref)]_vars

\* C16: a confirmation of a conversation whose request is fulfilled or
\* cancelled fails with a validation error, creates no booking and leaves
\* the request's status and updated_at as they were
C16_ConfirmRejected ==
    [][(/\ ConfirmStep
        /\ requests[response'.ref].status \in {"fulfilled", "cancelled"})
       => /\ response'.result = "ValidationError"
          /\ response'.id = 0
          /\ bookings' = bookings
          /\ requests' = requests]_vars

\* a confirmation of the fulfilled request 1 was rejected after time had
\* passed: no booking, the request as it was
C16_Witness ==
    /\ response.op = "confirm"
    /\ response.result = "ValidationError"
    /\ response.ref = 1
    /\ response.old_status = "fulfilled"
    /\ now > 0
    /\ requests[1].status = "fulfilled"
    /\ requests[1].updated_at = 0
    /\ bookings = <<>>

\* no two conversations are linked to the same request
OneConversationPerRequest ==
    \A c1 \in DOMAIN conversations, c2 \in DOMAIN conversations :
        c1 # c2 => conversations[c1].request_id # conversations[c2].request_id

\* the conversations change only with a submission that stored a request,
\* and then by the one conversation of that request and its user
ConversationOnlyOnSubmit ==
    (conversations' # conversations \/ Len(requests') # Len(requests))
    => /\ response'.op = "submit"
       /\ response'.result = "ok"
       /\ Len(requests') = Len(requests) + 1
       /\ response'.id = Len(requests')
       /\ Len(conversations') = Len(conversations) + 1
       /\ SubSeq(conversations', 1, Len(conversations)) = conversations
       /\ conversations'[Len(conversations')] =
             [request_id |-> Len(requests'),
              user_id |-> requests'[Len(requests')].user_id]

C18_CompletedIsTerminal ==
    [][\A b \in DOMAIN bookings :
          bookings[b].status = "completed"
          => bookings'[b].status = "completed"]_vars

\* call c finishes an update whose target is upcoming
ResetStep(c) ==
    /\ calls[c].pc = "found"
    /\ calls'[c].pc = "idle"
    /\ calls[c].target = "upcoming"

\* C19: an admin update to upcoming of a booking found cancelled succeeds
\* and returns the booking as upcoming; of a booking found completed it is
\* rejected with a validation error and persists nothing
C19_ResetToUpcoming ==
    [][\A c \in Calls :
          ResetStep(c)
          => LET b == calls[c].booking_id
             IN /\ calls[c].status = "cancelled"
                   => /\ response'.result = "ok"
                      /\ response'.id = b
                      /\ response'.status = "upcoming"
                      /\ bookings'[b].status = "upcoming"
                /\ calls[c].status = "completed"
                   => /\ response'.result = "ValidationError"
                      /\ bookings' = bookings
                      /\ notifications' = notifications]_vars

\* the reset of a completed booking was rejected and the booking is still
\* completed, while another booking, cancelled before, is upcoming again
C19_Witness ==
    /\ response.op = "update_status"
    /\ response.result = "ValidationError"
    /\ response.old_status = "completed"
    /\ bookings[response.id].status = "completed"
    /\ \E b \in DOMAIN bookings, n \in DOMAIN notifications :
          /\ b # response.id
          /\ bookings[b].status = "upcoming"
          /\ notifications[n].notification_type = "BOOKING_CANCELLED"
          /\ notifications[n].related_id = b

\* connection c was in the room of the broadcast of session s when it
\* started and is in it now, its transport healthy: a handler joins once
\* and a transport never comes back, so c was registered and healthy for
\* the whole of the broadcast
StayedThrough(s, c) ==
    /\ c \in Elems(bc[s].members0)
    /\ InRoom(c, bc[s].cid)
    /\ peer[c] = "open"

\* C21: when a broadcast on a room has returned, however connects and
\* disconnects of other sessions were interleaved with its sends, every
\* healthy connection that was registered in the room for the whole of the
\* broadcast holds the payload exactly once
C21_BroadcastUnderMutation ==
    \A s \in Sessions :
        bc[s].phase = "returned"
        => \A c \in Sessions :
               StayedThrough(s, c) => Copies(c, bc[s].payload) = 1

\* frame f is the frame of a row of the messages table: it carries the
\* row's message_id and created_at and the row's other fields
FrameOfStored(f) ==
    /\ f.id \in DOMAIN messages
    /\ messages[f.id].message_id = f.id
    /\ f.created_at = isoformat(messages[f.id].created_at)
    /\ f.conversation_id = messages[f.id].conversation_id
    /\ f.sender_id = messages[f.id].sender_id
    /\ f.sender_type = messages[f.id].sender_type
    /\ f.content = messages[f.id].content

\* C22: a message frame is broadcast only after its message was persisted:
\* every message frame a client was sent, and the payload of every
\* broadcast under way, carries the message_id and created_at of a message
\* that is in the store; no frame exists for a message that was not stored
C22_BroadcastAfterPersist ==
    /\ \A s \in Sessions :
          \A i \in 1..Len(sent[s]) :
              IsMessageFrame(sent[s][i]) => FrameOfStored(sent[s][i])
    /\ \A s \in Sessions :
          bc[s].phase # "none" => FrameOfStored(bc[s].payload)

\* a client holds the frame of the second message, stored after time had
\* passed
C22_Witness ==
    \E s \in Sessions :
        \E i \in 1..Len(sent[s]) :
            /\ IsMessageFrame(sent[s][i])
            /\ sent[s][i].id = 2
            /\ messages[2].created_at > 0
            /\ messages[1].created_at = 0

\* C23: within one conversation, message_id order and created_at order
\* agree: of two stored messages of a conversation, the one with the larger
\* message_id has a created_at that is not earlier, also when several
\* senders create and store messages concurrently
C23_IdOrderIsTimeOrder ==
    \A i \in DOMAIN messages, j \in DOMAIN messages :
        (/\ messages[i].conversation_id = messages[j].conversation_id
         /\ messages[i].message_id < messages[j].message_id)
        => messages[i].created_at <= messages[j].created_at

\* the place of a status on the way new, assigned, in_progress, fulfilled
Rank(status) ==
    IF status = "new" THEN 1
    ELSE IF status = "assigned" THEN 2
    ELSE IF status = "in_progress" THEN 3
    ELSE 4

\* a request that had status old may have status new: nothing changed, or
\* it moved forward on the way to fulfilled, or it was cancelled before it
\* was fulfilled
Forward(old, new) ==
    \/ new = old
    \/ /\ old \notin {"fulfilled", "cancelled"}
       /\ \/ new = "cancelled"
          \/ new # "cancelled" /\ Rank(old) < Rank(new)

\* the five statuses of a request
FiveStatuses == {"new", "assigned", "in_progress", "fulfilled", "cancelled"}

\* C24: a request's status is always one of new, assigned, in_progress,
\* fulfilled, cancelled; neither a method of the entity nor a confirmation
\* moves it backward on the way new, assigned, in_progress, fulfilled, and
\* a fulfilled or cancelled request keeps its status
C24_RequestStatusForward ==
    /\ [](/\ \A r \in DOMAIN requests : requests[r].status \in FiveStatuses
          /\ request.status \in FiveStatuses)
    /\ [][/\ \A r \in DOMAIN requests :
               Forward(requests[r].status, requests'[r].status)
          /\ invoked'.method \in RequestMethods
               => Forward(request.status, request'.status)]_vars

\* the stored request 1, cancelled from the start, is still cancelled after
\* a confirmation of its conversation, and the entity in memory, fulfilled,
\* has just refused a cancel
C24_Witness ==
    /\ requests[1].status = "cancelled"
    /\ response.op = "confirm"
    /\ response.ref = 1
    /\ response.result = "ValidationError"
    /\ request.status = "fulfilled"
    /\ invoked.method = "cancel"
    /\ invoked.raised # "none"
    /\ requests[2].status = "in_progress"

\* call c finishes a status update of a booking it found in status st
UpdateStep(c, st) ==
    /\ calls[c].pc = "found"
    /\ calls'[c].pc = "idle"
    /\ calls[c].status = st

\* C25, as stated: once a booking's status is cancelled, no operation
\* moves it to any other status
C25_CancelledIsTerminal ==
    [][\A b \in DOMAIN bookings :
          bookings[b].status = "cancelled"
          => bookings'[b].status = "cancelled"]_vars

\* C25, amended: of a booking found cancelled, an update to completed is
\* refused and writes nothing, an update to cancelled leaves it cancelled,
\* and an update to upcoming succeeds and makes it upcoming again
C25_CancelledLeavesByReset ==
    [][\A c \in Calls :
          UpdateStep(c, "cancelled")
          => LET b == calls[c].booking_id
                 target == calls[c].target
             IN /\ target = "completed"
                   => /\ response'.result = "InvalidBookingError"
                      /\ bookings' = bookings
                      /\ notifications' = notifications
                /\ target = "cancelled"
                   => /\ response'.result = "ok"
                      /\ response'.status = "cancelled"
                      /\ bookings'[b].status = "cancelled"
                /\ target = "upcoming"
                   => /\ response'.result = "ok"
                      /\ response'.status = "upcoming"
                      /\ bookings'[b].status = "upcoming"]_vars

\* a cancelled booking has just been made upcoming again by an update
C25_Witness ==
    /\ response.op = "update_status"
    /\ response.result = "ok"
    /\ response.old_status = "cancelled"
    /\ response.status = "upcoming"
    /\ bookings[response.id].status = "upcoming"

\* C26: when two admin status updates of one booking run concurrently, an
\* update that read the booking as upcoming does not overwrite the
\* completed status the other update has written meanwhile
C26_NoLostCompletion ==
    [][\A c \in Calls :
          (/\ UpdateStep(c, "upcoming")
           /\ bookings[calls[c].booking_id].status = "completed")
          => bookings'[calls[c].booking_id].status = "completed"]_vars

\* a step of a confirmation call that ended in an exception
ConfirmFailed ==
    /\ response'.op = "confirm"
    /\ response'.result # "ok"
    /\ \/ response' # response
       \/ requests' # requests
       \/ bookings' # bookings

\* C27: a confirmation call is all-or-nothing: when it fails, at whatever
\* step, the stored requests are what they were before the call and no
\* booking was created
C27_ConfirmAllOrNothing ==
    [][ConfirmFailed => (requests' = requests /\ bookings' = bookings)]_vars

\* C28, as stated: while a chat session is between its join and its
\* teardown, its connection is registered in its conversation's room
C28_LoopImpliesRegistered ==
    \A s \in Sessions :
        pc[s] \in JoinedPcs => InRoom(s, conversation_id[s])

\* C28, amended: while a chat session is between its join and its teardown
\* and its transport is healthy, its connection is registered in its
\* conversation's room; only a session whose transport is gone can be out
\* of the room before its teardown
C28_HealthyLoopRegistered ==
    \A s \in Sessions :
        (pc[s] \in JoinedPcs /\ peer[s] = "open")
        => InRoom(s, conversation_id[s])

\* a healthy session in its loop is registered while the other session of
\* the conversation, its transport gone, is still in its loop and already
\* out of the room
C28_Witness ==
    \E s, t \in Sessions :
        /\ s # t
        /\ conversation_id[s] = conversation_id[t]
        /\ pc[s] = "receive" /\ peer[s] = "open"
        /\ InRoom(s, conversation_id[s])
        /\ pc[t] \in JoinedPcs /\ peer[t] = "gone"
        /\ ~InRoom(t, conversation_id[t])

\* the error frame of the loop's "except Exception" clause
FailedText == "Failed to process message"

\* nothing of the sessions other than s changes
OthersUntouched(s) ==
    \A t \in Sessions \ {s} :
        /\ pc'[t] = pc[t]
        /\ sent'[t] = sent[t]
        /\ bc'[t] = bc[t]
        /\ db'[t] = db[t]

\* the loop body of session s raises on the frame it received
FrameFails(s) == pc[s] = "receive" /\ pc'[s] = "send_failed_error"

\* session s answers the failure
FailureAnswered(s) == pc[s] = "send_failed_error" /\ pc'[s] # pc[s]

\* C29: when the processing of an inbound frame fails with an error other
\* than a disconnect, nothing is stored or broadcast for it, the sender is
\* sent one error frame, no other session is affected, and the session
\* stays in its room with its database session, back at receive_json for
\* the frames that follow
C29_FailedFrameIsolated ==
    [][\A s \in Sessions :
          /\ FrameFails(s)
             => /\ messages' = messages
                /\ bc'[s].phase = "none"
                /\ sent' = sent
                /\ active_connections' = active_connections
                /\ db'[s] = db[s]
                /\ OthersUntouched(s)
          /\ FailureAnswered(s)
             => /\ pc'[s] = "receive"
                /\ sent'[s] = IF peer[s] = "open"
                              THEN Append(sent[s], ErrorFrame(FailedText))
                              ELSE sent[s]
                /\ messages' = messages
                /\ bc'[s].phase = "none"
                /\ active_connections' = active_connections
                /\ db'[s] = db[s]
                /\ OthersUntouched(s)]_vars

\* a session was sent the error frame for a frame that failed and then the
\* message frame of the frame that followed; it is still in its room
C29_Witness ==
    \E s \in Sessions :
        /\ Len(sent[s]) = 3
        /\ sent[s][2] = ErrorFrame(FailedText)
        /\ IsMessageFrame(sent[s][3])
        /\ messages[sent[s][3].id].sender_id = token[s].user_id
        /\ Len(messages) = 1
        /\ InRoom(s, conversation_id[s])

\* list l without the connections of set dead, the others in their order
Without(l, dead) == SelectSeq(l, LAMBDA x : x \notin dead)

\* registry after is registry before with the connections of dead taken
\* out of the room of cid and nothing else changed: the other connections
\* of that room and all other rooms are as they were
OnlyRemoved(before, after, dead, cid) ==
    /\ Room(after, cid) = Without(Room(before, cid), dead)
    /\ \A c \in PathIds \ {cid} :
          /\ c \in DOMAIN after <=> c \in DOMAIN before
          /\ Room(after, c) = Room(before, c)

\* C30: removing one connection only removes that connection: in every
\* registry the manager reaches, disconnect(w, cid), and the pruning of a
\* broadcast that calls it for each dead connection, leave every other
\* connection of the room and every other room unchanged, also when w is
\* no longer in the room and the room has been deleted and created again
C30_DisconnectRemovesOnlyOne ==
    \A cid \in PathIds :
        /\ \A w \in Sockets :
              OnlyRemoved(active_connections,
                          DisconnectOp(active_connections, w, cid), {w}, cid)
        /\ \A w \in Sockets, u \in Sockets :
              OnlyRemoved(active_connections,
                          PruneOp(active_connections, <<w, u>>, cid),
                          {w, u}, cid)

\* a connection that was accepted once is in no room any more, while the
\* room it is disconnected from holds another connection and a second
\* room exists: its disconnect leaves the registry as it is
C30_Witness ==
    \E w \in Sockets, u \in Sockets, cid \in PathIds, other \in PathIds :
        /\ w # u
        /\ cid # other
        /\ ws_state[w] = "connected"
        /\ \A c \in PathIds : ~InRoom(w, c)
        /\ InRoom(u, cid)
        /\ other \in DOMAIN active_connections
        /\ DisconnectOp(active_connections, w, cid) = active_connections
====
